---------------------------- MODULE Spec2Model ----------------------------
(***************************************************************************)
(* Market sampling dummy data generator (src/src/generate_dummy_data.py).  *)
(*                                                                         *)
(* The script seeds Python's `random` and NumPy's global generator, builds *)
(* five tables (Area, Promoter, SamplingType, SamplingFact, Respondents)   *)
(* and exports them.  The model follows main() step by step.  The three    *)
(* sources of randomness are kept apart, as in the code:                   *)
(*   py_rng   - the `random` module, seeded by random.seed(seed)           *)
(*   np_rng   - numpy's global generator, seeded by np.random.seed(seed);  *)
(*              pandas' .sample() draws from it                            *)
(*   fake_rng - the generator behind Faker(), which the script never      *)
(*              seeds: its state at start-up is whatever the process got   *)
(* Each generator is a deterministic automaton: a draw advances its state  *)
(* and the value drawn is a function of the new state.  The library        *)
(* generators (Mersenne Twister) are stood in for by small multiplicative  *)
(* congruential generators; what is kept exact is how the script turns a   *)
(* draw into a value (inclusive randint, choice over a list, sample(1)).   *)
(***************************************************************************)
EXTENDS Integers, Sequences, FiniteSets, TLC

VARIABLES
    pc,               \* position of main(): the next call to make
    entry,            \* who calls: "main", "pipeline" (main's sequence of calls
                      \* with other arguments) or "generate_respondents"
    seed,             \* the argument of initialize_faker
    py_rng,           \* state of the `random` module's generator
    np_rng,           \* state of numpy's global generator
    fake_rng,         \* state of the generator behind the Faker object
    today,            \* the day the process runs (what 'today' resolves to)
    lookup_data,      \* main's lookup_data
    params,           \* sizes and start ids passed to the generators
    area_df,          \* main's area_df
    promoter_df,      \* main's promoter_df
    sampling_type_df, \* main's sampling_type_df
    sampling_fact_df, \* main's sampling_fact_df
    respondents_df,   \* main's respondents_df
    returned,         \* which of main's tables have been returned so far
    sampling_facts,   \* generate_sampling_facts: the list being built
    respondents,      \* generate_respondents: the list being built
    respondent_id,    \* generate_respondents: the id counter
    row,              \* generate_respondents: number of events iterated
    actuals,          \* generate_respondents: the batch sizes drawn so far
    calls,            \* the generator calls made by this run, in order
    exported,         \* sheets written by export_to_excel, in order
    error,            \* the exception that ended the run, "" if none
    run_no,           \* 1 for the first run of the program, 2 for a re-run
    first_run         \* the tables of the first run, kept for comparison

vars == <<pc, entry, seed, py_rng, np_rng, fake_rng, today, lookup_data,
          params, area_df, promoter_df, sampling_type_df, sampling_fact_df,
          respondents_df, returned, sampling_facts, respondents,
          respondent_id, row, actuals, calls, exported, error, run_no,
          first_run>>

-----------------------------------------------------------------------------
(* Bounds of the model. *)

\* seeds given to initialize_faker: 0..MaxSeed (main passes 42)
MaxSeed == 42
\* start-up states of the unseeded Faker generator: 1..MaxEntropy
MaxEntropy == 1
\* ... and of the generator of a second process: 1..MaxRerunEntropy
MaxRerunEntropy == 2
\* the process runs on one of the days FirstDay..FirstDay+MaxDayShift
FirstDay == 20000
MaxDayShift == 0
\* number of distinct names / phone numbers the fake-identity source yields
NamePool == 50

-----------------------------------------------------------------------------
(* Optional values: None is the empty tuple, a set value a 1-tuple. *)

None == <<>>
Some(v) == <<v>>

-----------------------------------------------------------------------------
(* The random sources. *)

\* One step of the `random` module's generator.
PyNext(s) == (s * 16807) % 32749
\* One step of numpy's global generator.
NpNext(s) == (s * 10007) % 32749
\* One step of the generator behind Faker.
FakeNext(s) == (s * 20011) % 32749

\* random.seed(seed): the state is a function of the seed alone.
PySeed(sd) == 1 + ((sd * 7919 + 17) % 32748)
\* np.random.seed(seed): likewise.
NpSeed(sd) == 1 + ((sd * 104729 + 31) % 32748)

\* random.randint(a, b): an integer N with a <= N <= b, both ends included.
\* (Raises ValueError when b < a; callers test RandIntFails first.)
RandInt(rng, a, b) ==
    LET s == PyNext(rng) IN [val |-> a + (s % (b - a + 1)), rng |-> s]
RandIntFails(a, b) == b < a

\* random.choice(seq): one element of seq.  (Raises IndexError on an empty
\* sequence; callers test ChoiceFails first.)
Choice(rng, seq) ==
    LET s == PyNext(rng) IN [val |-> seq[1 + (s % Len(seq))], rng |-> s]
ChoiceFails(seq) == Len(seq) = 0

\* df.sample(1).iloc[0] / series.sample(1).values[0]: one row of the table,
\* drawn with numpy's global generator.  (Raises ValueError on an empty table.)
Sample1(rng, df) ==
    LET s == NpNext(rng) IN [val |-> df[1 + (s % Len(df))], rng |-> s]
SampleFails(df) == Len(df) = 0

\* fake.name()
FakeName(rng) ==
    LET s == FakeNext(rng)
    IN  [val |-> "name" \o ToString(s % NamePool), rng |-> s]
\* fake.phone_number()
FakePhone(rng) ==
    LET s == FakeNext(rng)
    IN  [val |-> "+233" \o ToString(s % NamePool), rng |-> s]
\* fake.date_between(start_date='-1y', end_date='today'): a day between
\* 365 days before the current day and the current day, both included.
DateBetween(rng, now) ==
    LET s == FakeNext(rng) IN [val |-> (now - 365) + (s % 366), rng |-> s]

\* pd.date_range(start, end): the days start, start+1, ..., end.
DateRange(start, end) ==
    IF end < start THEN <<>> ELSE [k \in 1..(end - start + 1) |-> start + k - 1]

-----------------------------------------------------------------------------
(* define_lookup_data *)

\* Mutant of sampling_types: "Traffic" and "Trade" change places.
SamplingTypesReordered ==
    <<"Open Market", "Trade", "Traffic", "Third Space", "Institutional">>
sampling_types ==
    <<"Open Market", "Traffic", "Trade", "Third Space", "Institutional">>
institution_types == <<"Church", "Mosque">>
\* The dict keeps insertion order: a sequence of (region, districts) items.
regions_districts ==
    << [region |-> "Greater Accra",
        districts |-> <<"La Nkwantanang", "Ablekuma", "Madina", "Adenta">>],
       [region |-> "Ashanti",
        districts |-> <<"Kumasi Metro", "Ejisu", "Obuasi">>],
       [region |-> "Central",
        districts |-> <<"Cape Coast", "Kasoa", "Mankessim">>] >>
\* (the source writes the ranges with an en dash)
age_ranges == <<"18-24", "25-34", "35-44", "45-54", "55+">>
toothpaste_brands ==
    <<"Pepsodent", "Kel", "Colgate", "Close-Up", "Oral-B", "Sensodyne">>
reasons ==
    <<"Curious about the brand", "Referred by friend", "Free product sample",
      "Interested in survey", "Enjoy trying new products",
      "Promoter was convincing", "Happened to be available">>

define_lookup_data ==
    [sampling_types |-> sampling_types,
     institution_types |-> institution_types,
     regions_districts |-> regions_districts,
     age_ranges |-> age_ranges,
     toothpaste_brands |-> toothpaste_brands,
     reasons |-> reasons]

-----------------------------------------------------------------------------
(* generate_area_data *)

\* Mutant of AreaLoopI: one area per district instead of two.
AreaLoopISingle(i, region, district, st) ==
    [area_records |->
        Append(st.area_records,
               [areaID |-> "A " \o ToString(st.area_id),
                AreaName |-> district \o " Area " \o ToString(i + 1),
                region |-> region,
                district |-> district]),
     area_id |-> st.area_id + 1]

\* for i in range(2): append one record, area_id += 1
RECURSIVE AreaLoopI(_, _, _, _)
AreaLoopI(i, region, district, st) ==
    IF i >= 2 THEN st
    ELSE AreaLoopI(i + 1, region, district,
            [area_records |->
                Append(st.area_records,
                       [areaID |-> "A " \o ToString(st.area_id),
                        AreaName |-> district \o " Area " \o ToString(i + 1),
                        region |-> region,
                        district |-> district]),
             area_id |-> st.area_id + 1])

\* for district in districts
RECURSIVE AreaLoopDistricts(_, _, _, _)
AreaLoopDistricts(d, region, districts, st) ==
    IF d > Len(districts) THEN st
    ELSE AreaLoopDistricts(d + 1, region, districts,
                           AreaLoopI(0, region, districts[d], st))

\* for region, districts in regions_districts.items()
RECURSIVE AreaLoopRegions(_, _, _)
AreaLoopRegions(r, rd, st) ==
    IF r > Len(rd) THEN st
    ELSE AreaLoopRegions(r + 1, rd,
            AreaLoopDistricts(1, rd[r].region, rd[r].districts, st))

generate_area_data(rd, start_id) ==
    AreaLoopRegions(1, rd, [area_records |-> <<>>, area_id |-> start_id]).area_records

-----------------------------------------------------------------------------
(* generate_promoter_data *)

\* The list comprehension over range(num_promoters); each element draws a
\* name and then a phone number from the Faker generator.
RECURSIVE PromoterLoop(_, _, _, _, _)
PromoterLoop(i, num_promoters, start_id, rng, acc) ==
    IF i >= num_promoters THEN [promoters |-> acc, rng |-> rng]
    ELSE LET n == FakeName(rng)
             c == FakePhone(n.rng)
         IN  PromoterLoop(i + 1, num_promoters, start_id, c.rng,
                Append(acc, [promoterID |-> "P" \o ToString(start_id + i),
                             name |-> n.val,
                             contact |-> c.val]))

generate_promoter_data(rng, num_promoters, start_id) ==
    PromoterLoop(0, num_promoters, start_id, rng, <<>>)

-----------------------------------------------------------------------------
(* generate_sampling_type_df *)

\* One row per label, indexed 'ST1'..'STk' in list order.
generate_sampling_type_df(types) ==
    [i \in 1..Len(types) |->
        [key |-> "ST" \o ToString(i), SamplingType |-> types[i]]]

\* sampling_type_df.index
Index(df) == [i \in 1..Len(df) |-> df[i].key]

-----------------------------------------------------------------------------
(* generate_sampling_facts: one iteration of `for i in range(num_samples)` *)

\* Mutant of DrawTarget: the lower bound of the draw is lost.
DrawTargetNoLowerBound(rng) == RandInt(rng, 0, 200)
\* target = random.randint(100, 200)
DrawTarget(rng) == RandInt(rng, 100, 200)
\* Mutant of DrawPassengers: the upper bound is one too high.
DrawPassengersOneMore(rng) == RandInt(rng, 5, 11)
\* passengers = random.randint(5, 10)
DrawPassengers(rng) == RandInt(rng, 5, 10)
\* Mutant of EndDate: the event lasts one day longer.
EndDateOneDayLater(start_date) == start_date + 31
\* end_date = start_date + pd.Timedelta(days=30)
EndDate(start_date) == start_date + 30
\* the index key compared with the sampled type before an institution type
\* is drawn, and the one compared before a passenger count is drawn
InstitutionalKey == "ST5"
TrafficKey == "ST2"

\* Whether the iteration raises: a sample from an empty table, or a choice
\* from an empty list (the institution list is only consulted for "ST5").
SamplingFactFails(adf, pdf, stdf, inst_types, brands, st) ==
    \/ SampleFails(adf)
    \/ SampleFails(pdf)
    \/ ChoiceFails(Index(stdf))
    \/ /\ Choice(st.py, Index(stdf)).val = InstitutionalKey
       /\ ChoiceFails(inst_types)
    \/ ChoiceFails(brands)

\* sampling_facts.append({...}): the record of one sampling event.
SamplingFactRecord(i, start_id, area, promoter, sampling_type, institution_type, target, passengers, brand, start_date, end_date) ==
    [samplingID |-> "S" \o ToString(start_id + i),
     areaID |-> area.areaID,
     promoterID |-> promoter.promoterID,
     samplingType |-> sampling_type,
     institutionType |-> institution_type,
     target |-> target,
     passengers |-> passengers,
     toothpasteBrand |-> brand,
     startDate |-> start_date,
     endDate |-> end_date]

\* The record appended by the iteration and the generators' states after it.
\* st = [py, np, fk]; the draws are made in the order of the source.
SamplingFact(i, start_id, adf, pdf, stdf, inst_types, brands, now, st) ==
    LET area == Sample1(st.np, adf)
        promoter == Sample1(area.rng, pdf)
        sampling_type == Choice(st.py, Index(stdf))
        institution_type ==
            IF sampling_type.val = InstitutionalKey
            THEN LET c == Choice(sampling_type.rng, inst_types)
                 IN  [val |-> Some(c.val), rng |-> c.rng]
            ELSE [val |-> None, rng |-> sampling_type.rng]
        target == DrawTarget(institution_type.rng)
        passengers ==
            IF sampling_type.val = TrafficKey
            THEN LET c == DrawPassengers(target.rng)
                 IN  [val |-> Some(c.val), rng |-> c.rng]
            ELSE [val |-> None, rng |-> target.rng]
        start_date == DateBetween(st.fk, now)
        end_date == EndDate(start_date.val)
        brand == Choice(passengers.rng, brands)
    IN  [rec |-> SamplingFactRecord(i, start_id, area.val, promoter.val,
                     sampling_type.val, institution_type.val, target.val,
                     passengers.val, brand.val, start_date.val, end_date),
         py |-> brand.rng,
         np |-> promoter.rng,
         fk |-> start_date.rng]

-----------------------------------------------------------------------------
(* generate_respondents: one iteration of `for _, sampling in ...iterrows()` *)

\* Mutant of DrawActual: the batch size is drawn without regard to the target.
DrawActualIgnoringTarget(rng, target) == RandInt(rng, 100, 200)
\* actual = random.randint(100, sampling['target'])
DrawActual(rng, target) == RandInt(rng, 100, target)
DrawActualFails(target) == RandIntFails(100, target)

\* Column area_df['AreaName']
AreaNames(adf) == [k \in 1..Len(adf) |-> [AreaName |-> adf[k].AreaName]]

\* Whether building one respondent record raises.
RespondentFails(sampling, adf, ages, brands, rsns) ==
    \/ ChoiceFails(ages)
    \/ ChoiceFails(brands)
    \/ SampleFails(adf)
    \/ ChoiceFails(rsns)
    \/ ChoiceFails(DateRange(sampling.startDate, sampling.endDate))

\* Mutant of RespondentRecord: the residence area is stored as the areaID.
RespondentRecordResidenceAsArea(id, sampling, fullName, ageRange, contact, perferredBrand, residenceArea, reason, optIn, date) ==
    [respondentID |-> "R" \o ToString(id),
     samplingID |-> sampling.samplingID,
     fullName |-> fullName,
     ageRange |-> ageRange,
     contact |-> contact,
     toothpasteBrand |-> sampling.toothpasteBrand,
     perferredBrand |-> perferredBrand,
     areaID |-> residenceArea,
     residenceArea |-> residenceArea,
     reason |-> reason,
     optInOtherProducts |-> optIn,
     dateOfSubmistion |-> date]

\* respondents.append({...}): the record of one respondent of `sampling`.
RespondentRecord(id, sampling, fullName, ageRange, contact, perferredBrand, residenceArea, reason, optIn, date) ==
    [respondentID |-> "R" \o ToString(id),
     samplingID |-> sampling.samplingID,
     fullName |-> fullName,
     ageRange |-> ageRange,
     contact |-> contact,
     toothpasteBrand |-> sampling.toothpasteBrand,
     perferredBrand |-> perferredBrand,
     areaID |-> sampling.areaID,
     residenceArea |-> residenceArea,
     reason |-> reason,
     optInOtherProducts |-> optIn,
     dateOfSubmistion |-> date]

\* One respondent record and the generators' states after it.
\* st = [py, np, fk, respondent_id]
Respondent(sampling, adf, ages, brands, rsns, st) ==
    LET fullName == FakeName(st.fk)
        ageRange == Choice(st.py, ages)
        contact == FakePhone(fullName.rng)
        perferredBrand == Choice(ageRange.rng, brands)
        residenceArea == Sample1(st.np, AreaNames(adf))
        reason == Choice(perferredBrand.rng, rsns)
        optIn == Choice(reason.rng, <<"Yes", "No">>)
        date == Choice(optIn.rng,
                       DateRange(sampling.startDate, sampling.endDate))
    IN  [rec |-> RespondentRecord(st.respondent_id, sampling, fullName.val,
                     ageRange.val, contact.val, perferredBrand.val,
                     residenceArea.val.AreaName, reason.val, optIn.val,
                     date.val),
         py |-> date.rng,
         np |-> residenceArea.rng,
         fk |-> contact.rng,
         respondent_id |-> st.respondent_id]

\* for _ in range(actual): append one record, respondent_id += 1.
\* Iterations lo..hi-1 of the loop, run in order from state st.  The range is
\* halved so that evaluation does not nest once per record; the second half
\* starts from the state the first half ends in.
RECURSIVE RespondentLoop(_, _, _, _, _, _, _, _)
RespondentLoop(lo, hi, sampling, adf, ages, brands, rsns, st) ==
    IF hi <= lo THEN [rows |-> <<>>, st |-> st]
    ELSE IF hi = lo + 1
    THEN LET r == Respondent(sampling, adf, ages, brands, rsns, st)
         IN  [rows |-> <<r.rec>>,
              st |-> [py |-> r.py, np |-> r.np, fk |-> r.fk,
                      respondent_id |-> st.respondent_id + 1]]
    ELSE LET mid == (lo + hi) \div 2
             first == RespondentLoop(lo, mid, sampling, adf, ages, brands,
                                     rsns, st)
             second == RespondentLoop(mid, hi, sampling, adf, ages, brands,
                                      rsns, first.st)
         IN  [rows |-> first.rows \o second.rows, st |-> second.st]

\* Whether the iteration for one event raises: the batch-size draw over an
\* empty range, or the first record of a non-empty batch.
RespondentBatchFails(sampling, adf, ages, brands, rsns, st) ==
    \/ DrawActualFails(sampling.target)
    \/ /\ DrawActual(st.py, sampling.target).val > 0
       /\ RespondentFails(sampling, adf, ages, brands, rsns)

\* Mutant of RespondentBatch: the id counter restarts with every event.
RespondentBatchRestartingIds(sampling, adf, ages, brands, rsns, st) ==
    LET actual == DrawActual(st.py, sampling.target)
        loop == RespondentLoop(0, actual.val, sampling, adf, ages, brands, rsns,
                    [py |-> actual.rng, np |-> st.np, fk |-> st.fk,
                     respondent_id |-> 1000])
    IN  [rows |-> loop.rows, actual |-> actual.val, st |-> loop.st]

\* The records appended for one event, the batch size drawn and the state
\* after the iteration.
RespondentBatch(sampling, adf, ages, brands, rsns, st) ==
    LET actual == DrawActual(st.py, sampling.target)
        loop == RespondentLoop(0, actual.val, sampling, adf, ages, brands, rsns,
                    [py |-> actual.rng, np |-> st.np, fk |-> st.fk,
                     respondent_id |-> st.respondent_id])
    IN  [rows |-> loop.rows, actual |-> actual.val, st |-> loop.st]

-----------------------------------------------------------------------------
(* main: the arguments it passes, and the defaults of those it omits *)

num_promoters == 5
num_samples == 6
AreaStartId == 1001
PromoterStartId == 1000
SamplingStartId == 1000
RespondentStartId == 1000

MainParams ==
    [num_promoters |-> num_promoters,
     num_samples |-> num_samples,
     area_start |-> AreaStartId,
     promoter_start |-> PromoterStartId,
     sampling_start |-> SamplingStartId,
     respondent_start |-> RespondentStartId]

\* The state of a process that has not yet made any call.
Fresh ==
    /\ pc = "initialize_faker"
    /\ py_rng = 0
    /\ np_rng = 0
    /\ area_df = <<>>
    /\ promoter_df = <<>>
    /\ sampling_type_df = <<>>
    /\ sampling_fact_df = <<>>
    /\ respondents_df = <<>>
    /\ returned = {}
    /\ sampling_facts = <<>>
    /\ respondents = <<>>
    /\ respondent_id = 0
    /\ row = 0
    /\ actuals = <<>>
    /\ calls = <<>>
    /\ exported = <<>>
    /\ error = ""

\* The script run from the command line: main() with its own arguments, for
\* any seed in the bound, any start-up state of Faker's generator, any day.
Init ==
    /\ Fresh
    /\ entry = "main"
    /\ seed \in 0..MaxSeed
    /\ fake_rng \in 1..MaxEntropy
    /\ today \in FirstDay..(FirstDay + MaxDayShift)
    /\ lookup_data = <<>>
    /\ params = MainParams
    /\ run_no = 1
    /\ first_run = <<>>

-----------------------------------------------------------------------------
(* The steps of main *)

\* Mutant of Fail: the exception is swallowed and main goes on to the export.
FailAndGoOn(what) ==
    /\ pc' = "export_to_excel"
    /\ error' = what

\* An exception raised by a generator: nothing in main catches it.
Fail(what) ==
    /\ pc' = "failed"
    /\ error' = what

\* fake = initialize_faker(seed): Faker() is constructed (its generator is
\* left as it is), then random.seed(seed) and np.random.seed(seed).
InitializeFaker ==
    /\ pc = "initialize_faker"
    /\ py_rng' = PySeed(seed)
    /\ np_rng' = NpSeed(seed)
    /\ pc' = "define_lookup_data"
    /\ UNCHANGED <<entry, seed, fake_rng, today, lookup_data, params, area_df,
                   promoter_df, sampling_type_df, sampling_fact_df,
                   respondents_df, returned, sampling_facts, respondents,
                   respondent_id, row, actuals, calls, exported, error,
                   run_no, first_run>>

\* lookup_data = define_lookup_data()   (a caller of the generators that is
\* not main passes the lists it holds)
DefineLookupData ==
    /\ pc = "define_lookup_data"
    /\ lookup_data' = IF entry = "main" THEN define_lookup_data ELSE lookup_data
    /\ pc' = "generate_area_data"
    /\ UNCHANGED <<entry, seed, py_rng, np_rng, fake_rng, today, params,
                   area_df, promoter_df, sampling_type_df, sampling_fact_df,
                   respondents_df, returned, sampling_facts, respondents,
                   respondent_id, row, actuals, calls, exported, error,
                   run_no, first_run>>

\* area_df = generate_area_data(lookup_data['regions_districts'])
GenerateAreaData ==
    /\ pc = "generate_area_data"
    /\ area_df' = generate_area_data(lookup_data.regions_districts,
                                     params.area_start)
    /\ returned' = returned \cup {"area_df"}
    /\ calls' = Append(calls, "generate_area_data")
    /\ pc' = "generate_promoter_data"
    /\ UNCHANGED <<entry, seed, py_rng, np_rng, fake_rng, today, lookup_data,
                   params, promoter_df, sampling_type_df, sampling_fact_df,
                   respondents_df, sampling_facts, respondents, respondent_id,
                   row, actuals, exported, error, run_no, first_run>>

\* promoter_df = generate_promoter_data(fake, num_promoters=5)
GeneratePromoterData ==
    /\ pc = "generate_promoter_data"
    /\ LET r == generate_promoter_data(fake_rng, params.num_promoters,
                                       params.promoter_start)
       IN  /\ promoter_df' = r.promoters
           /\ fake_rng' = r.rng
    /\ returned' = returned \cup {"promoter_df"}
    /\ calls' = Append(calls, "generate_promoter_data")
    /\ pc' = "generate_sampling_type_df"
    /\ UNCHANGED <<entry, seed, py_rng, np_rng, today, lookup_data, params,
                   area_df, sampling_type_df, sampling_fact_df, respondents_df,
                   sampling_facts, respondents, respondent_id, row, actuals,
                   exported, error, run_no, first_run>>

\* sampling_type_df = generate_sampling_type_df(lookup_data['sampling_types'])
GenerateSamplingTypeDf ==
    /\ pc = "generate_sampling_type_df"
    /\ sampling_type_df' = generate_sampling_type_df(lookup_data.sampling_types)
    /\ returned' = returned \cup {"sampling_type_df"}
    /\ calls' = Append(calls, "generate_sampling_type_df")
    /\ pc' = "generate_sampling_facts"
    /\ UNCHANGED <<entry, seed, py_rng, np_rng, fake_rng, today, lookup_data,
                   params, area_df, promoter_df, sampling_fact_df,
                   respondents_df, sampling_facts, respondents, respondent_id,
                   row, actuals, exported, error, run_no, first_run>>

\* The call of generate_sampling_facts: sampling_facts = []
CallGenerateSamplingFacts ==
    /\ pc = "generate_sampling_facts"
    /\ sampling_facts' = <<>>
    /\ calls' = Append(calls, "generate_sampling_facts")
    /\ pc' = "sampling_facts_loop"
    /\ UNCHANGED <<entry, seed, py_rng, np_rng, fake_rng, today, lookup_data,
                   params, area_df, promoter_df, sampling_type_df,
                   sampling_fact_df, respondents_df, returned, respondents,
                   respondent_id, row, actuals, exported, error, run_no,
                   first_run>>

\* One iteration of the loop of generate_sampling_facts.  An exception ends
\* the run: nothing catches it.
SamplingFactsStep ==
    /\ pc = "sampling_facts_loop"
    /\ Len(sampling_facts) < params.num_samples
    /\ LET st == [py |-> py_rng, np |-> np_rng, fk |-> fake_rng]
       IN  IF SamplingFactFails(area_df, promoter_df, sampling_type_df,
                                lookup_data.institution_types,
                                lookup_data.toothpaste_brands, st)
           THEN /\ Fail("generate_sampling_facts")
                /\ UNCHANGED <<py_rng, np_rng, fake_rng, sampling_facts>>
           ELSE LET r == SamplingFact(Len(sampling_facts),
                                      params.sampling_start, area_df,
                                      promoter_df, sampling_type_df,
                                      lookup_data.institution_types,
                                      lookup_data.toothpaste_brands, today, st)
                IN  /\ sampling_facts' = Append(sampling_facts, r.rec)
                    /\ py_rng' = r.py
                    /\ np_rng' = r.np
                    /\ fake_rng' = r.fk
                    /\ UNCHANGED <<pc, error>>
    /\ UNCHANGED <<entry, seed, today, lookup_data, params, area_df,
                   promoter_df, sampling_type_df, sampling_fact_df,
                   respondents_df, returned, respondents, respondent_id, row,
                   actuals, calls, exported, run_no, first_run>>

\* return pd.DataFrame(sampling_facts)
SamplingFactsReturn ==
    /\ pc = "sampling_facts_loop"
    /\ Len(sampling_facts) >= params.num_samples
    /\ sampling_fact_df' = sampling_facts
    /\ returned' = returned \cup {"sampling_fact_df"}
    /\ pc' = "generate_respondents"
    /\ UNCHANGED <<entry, seed, py_rng, np_rng, fake_rng, today, lookup_data,
                   params, area_df, promoter_df, sampling_type_df,
                   respondents_df, sampling_facts, respondents, respondent_id,
                   row, actuals, calls, exported, error, run_no, first_run>>

\* The call of generate_respondents: respondents = [], respondent_id = start_id
CallGenerateRespondents ==
    /\ pc = "generate_respondents"
    /\ respondents' = <<>>
    /\ respondent_id' = params.respondent_start
    /\ row' = 0
    /\ actuals' = <<>>
    /\ calls' = Append(calls, "generate_respondents")
    /\ pc' = "respondents_loop"
    /\ UNCHANGED <<entry, seed, py_rng, np_rng, fake_rng, today, lookup_data,
                   params, area_df, promoter_df, sampling_type_df,
                   sampling_fact_df, respondents_df, returned, sampling_facts,
                   exported, error, run_no, first_run>>

\* One iteration of the outer loop of generate_respondents: the batch of one
\* sampling event.  An exception ends the run.
RespondentsStep ==
    /\ pc = "respondents_loop"
    /\ row < Len(sampling_fact_df)
    /\ LET sampling == sampling_fact_df[row + 1]
           st == [py |-> py_rng, np |-> np_rng, fk |-> fake_rng,
                  respondent_id |-> respondent_id]
       IN  IF RespondentBatchFails(sampling, area_df, lookup_data.age_ranges,
                                   lookup_data.toothpaste_brands,
                                   lookup_data.reasons, st)
           THEN /\ Fail("generate_respondents")
                /\ UNCHANGED <<py_rng, np_rng, fake_rng, respondents,
                               respondent_id, row, actuals>>
           ELSE LET b == RespondentBatch(sampling, area_df,
                                         lookup_data.age_ranges,
                                         lookup_data.toothpaste_brands,
                                         lookup_data.reasons, st)
                IN  /\ respondents' = respondents \o b.rows
                    /\ respondent_id' = b.st.respondent_id
                    /\ py_rng' = b.st.py
                    /\ np_rng' = b.st.np
                    /\ fake_rng' = b.st.fk
                    /\ actuals' = Append(actuals, b.actual)
                    /\ row' = row + 1
                    /\ UNCHANGED <<pc, error>>
    /\ UNCHANGED <<entry, seed, today, lookup_data, params, area_df,
                   promoter_df, sampling_type_df, sampling_fact_df,
                   respondents_df, returned, sampling_facts, calls, exported,
                   run_no, first_run>>

\* return pd.DataFrame(respondents); main goes on to the export, a direct
\* caller of generate_respondents is done.
RespondentsReturn ==
    /\ pc = "respondents_loop"
    /\ row >= Len(sampling_fact_df)
    /\ respondents_df' = respondents
    /\ returned' = returned \cup {"respondents_df"}
    /\ pc' = IF entry = "generate_respondents" THEN "done" ELSE "export_to_excel"
    /\ UNCHANGED <<entry, seed, py_rng, np_rng, fake_rng, today, lookup_data,
                   params, area_df, promoter_df, sampling_type_df,
                   sampling_fact_df, sampling_facts, respondents,
                   respondent_id, row, actuals, calls, exported, error,
                   run_no, first_run>>

\* export_to_excel(area_df, promoter_df, sampling_fact_df, respondents_df,
\*                 sampling_type_df): the five sheets, in the order written.
\* (A failure of the write itself, such as an unwritable path, is left out.)
ExportToExcel ==
    /\ pc = "export_to_excel"
    /\ exported' = <<"Area", "Promoter", "SamplingFact", "Respondents",
                     "SamplingType">>
    /\ pc' = "done"
    /\ UNCHANGED <<entry, seed, py_rng, np_rng, fake_rng, today, lookup_data,
                   params, area_df, promoter_df, sampling_type_df,
                   sampling_fact_df, respondents_df, returned, sampling_facts,
                   respondents, respondent_id, row, actuals, calls, error,
                   run_no, first_run>>

Next ==
    \/ InitializeFaker
    \/ DefineLookupData
    \/ GenerateAreaData
    \/ GeneratePromoterData
    \/ GenerateSamplingTypeDf
    \/ CallGenerateSamplingFacts
    \/ SamplingFactsStep
    \/ SamplingFactsReturn
    \/ CallGenerateRespondents
    \/ RespondentsStep
    \/ RespondentsReturn
    \/ ExportToExcel

Spec == Init /\ [][Next]_vars

-----------------------------------------------------------------------------
(* The program run twice with the same seed *)

\* The five tables main hands to export_to_excel.
Tables ==
    [Area |-> area_df,
     Promoter |-> promoter_df,
     SamplingType |-> sampling_type_df,
     SamplingFact |-> sampling_fact_df,
     Respondents |-> respondents_df]

\* A second process runs the script: same code, hence the same seed and
\* arguments; its Faker generator starts in a state of its own, and the day
\* is that day or a later one.
Rerun ==
    /\ pc = "done"
    /\ entry = "main"
    /\ run_no = 1
    /\ first_run' = <<Tables>>
    /\ run_no' = 2
    /\ fake_rng' \in 1..MaxRerunEntropy
    /\ today' \in today..(FirstDay + MaxDayShift)
    /\ pc' = "initialize_faker"
    /\ py_rng' = 0
    /\ np_rng' = 0
    /\ lookup_data' = <<>>
    /\ area_df' = <<>>
    /\ promoter_df' = <<>>
    /\ sampling_type_df' = <<>>
    /\ sampling_fact_df' = <<>>
    /\ respondents_df' = <<>>
    /\ returned' = {}
    /\ sampling_facts' = <<>>
    /\ respondents' = <<>>
    /\ respondent_id' = 0
    /\ row' = 0
    /\ actuals' = <<>>
    /\ calls' = <<>>
    /\ exported' = <<>>
    /\ error' = ""
    /\ UNCHANGED <<entry, seed, params>>

NextTwice ==
    \/ Next
    \/ Rerun

SpecTwice == Init /\ [][NextTwice]_vars

-----------------------------------------------------------------------------
(* The generators called with other arguments than main's *)

\* seeds 0..MaxLibSeed
MaxLibSeed == 1
\* num_promoters in 0..MaxPromoters, num_samples in 0..MaxSamples
MaxPromoters == 2
MaxSamples == 2
\* start ids: the defaults plus 0..MaxStartShift
MaxStartShift == 1
\* a caller's own sampling-event table has up to MaxDirectEvents rows
MaxDirectEvents == 2

\* A mapping with a repeated district name and a region without districts.
OtherRegions ==
    << [region |-> "Volta", districts |-> <<"Ho", "Ho">>],
       [region |-> "Northern", districts |-> <<>>] >>

\* Lookup data a caller may hold: the built-in lists, the built-in lists with
\* one of them empty, and the built-in lists with another region mapping.
LibLookups ==
    {define_lookup_data}
    \cup {[define_lookup_data EXCEPT ![f] = <<>>] :
             f \in {"sampling_types", "institution_types", "regions_districts",
                    "age_ranges", "toothpaste_brands", "reasons"}}
    \cup {[define_lookup_data EXCEPT !.regions_districts = OtherRegions]}

LibParams ==
    {[num_promoters |-> np, num_samples |-> ns,
      area_start |-> AreaStartId + d,
      promoter_start |-> PromoterStartId + d,
      sampling_start |-> SamplingStartId + d,
      respondent_start |-> RespondentStartId + d] :
        np \in 0..MaxPromoters, ns \in 0..MaxSamples, d \in 0..MaxStartShift}

\* Targets of the events of a caller's own table: below, at and just above
\* the lower end of the batch-size draw, and above what
\* generate_sampling_facts assigns.
DirectTargets == {99, 100, 101, 250}

\* The k-th event of a caller's own table, with target t.
DirectEvent(k, t, adf) ==
    [samplingID |-> "S" \o ToString(SamplingStartId + k - 1),
     areaID |-> adf[k].areaID,
     promoterID |-> "P" \o ToString(PromoterStartId),
     samplingType |-> "ST1",
     institutionType |-> None,
     target |-> t,
     passengers |-> None,
     toothpasteBrand |-> toothpaste_brands[k],
     startDate |-> FirstDay - 30 * k,
     endDate |-> EndDate(FirstDay - 30 * k)]

DirectTables(adf) ==
    {[k \in 1..n |-> DirectEvent(k, f[k], adf)] :
        n \in 0..MaxDirectEvents, f \in [1..MaxDirectEvents -> DirectTargets]}

\* A caller runs the same sequence of calls as main with its own lookup
\* data, sizes and start ids.
InitLibPipeline ==
    /\ Fresh
    /\ entry = "pipeline"
    /\ seed \in 0..MaxLibSeed
    /\ fake_rng = 1
    /\ today = FirstDay
    /\ lookup_data \in LibLookups
    /\ params \in LibParams
    /\ run_no = 1
    /\ first_run = <<>>

\* A caller that has seeded the generators calls generate_respondents on a
\* sampling-event table of its own.
InitLibRespondents ==
    /\ entry = "generate_respondents"
    /\ pc = "generate_respondents"
    /\ seed \in 0..MaxLibSeed
    /\ py_rng = PySeed(seed)
    /\ np_rng = NpSeed(seed)
    /\ fake_rng = 1
    /\ today = FirstDay
    /\ lookup_data = define_lookup_data
    /\ params \in {q \in LibParams : q.num_promoters = 0 /\ q.num_samples = 0}
    /\ area_df = generate_area_data(regions_districts, AreaStartId)
    /\ promoter_df = <<>>
    /\ sampling_type_df = <<>>
    /\ sampling_fact_df \in DirectTables(area_df)
    /\ respondents_df = <<>>
    /\ returned = {}
    /\ sampling_facts = <<>>
    /\ respondents = <<>>
    /\ respondent_id = 0
    /\ row = 0
    /\ actuals = <<>>
    /\ calls = <<>>
    /\ exported = <<>>
    /\ error = ""
    /\ run_no = 1
    /\ first_run = <<>>

InitLib == InitLibPipeline \/ InitLibRespondents

SpecLib == InitLib /\ [][Next]_vars

-----------------------------------------------------------------------------
(* Properties *)

\* The elements of a sequence.
Range(sq) == {sq[k] : k \in 1..Len(sq)}

\* The label the Sampling-Type table holds for a key.
LabelOf(stdf, key) ==
    LET rows == {k \in 1..Len(stdf) : stdf[k].key = key}
    IN  IF rows = {} THEN "" ELSE stdf[CHOOSE k \in rows : TRUE].SamplingType

\* The number of districts across all regions of a mapping.
RECURSIVE DistrictCount(_)
DistrictCount(rd) ==
    IF rd = <<>> THEN 0 ELSE Len(Head(rd).districts) + DistrictCount(Tail(rd))

\* C1 (as stated): every sampling event produced by generate_sampling_facts
\* has a target between 100 and 199; 200 is never produced.
C1_TargetBelow200 ==
    \A e \in Range(sampling_facts) : 100 <= e.target /\ e.target <= 199

\* C1 (amended): every sampling event produced by generate_sampling_facts
\* has an integer target between 100 and 200, both included.
C1_TargetWithin100And200 ==
    \A e \in Range(sampling_facts) : 100 <= e.target /\ e.target <= 200

\* The table returned holds an event with target 200.
C1_Witness ==
    /\ "sampling_fact_df" \in returned
    /\ \E e \in Range(sampling_fact_df) : e.target = 200

\* C2: institutionType is set exactly for the events whose samplingType is
\* the key of the label "Institutional" in the Sampling-Type table,
\* passengers exactly for those whose samplingType is the key of "Traffic";
\* for every other type both are unset.
C2_OptionalFieldsFollowType ==
    \A e \in Range(sampling_facts) :
        /\ (e.institutionType # None) <=>
               (LabelOf(sampling_type_df, e.samplingType) = "Institutional")
        /\ (e.passengers # None) <=>
               (LabelOf(sampling_type_df, e.samplingType) = "Traffic")
        /\ LabelOf(sampling_type_df, e.samplingType)
               \notin {"Institutional", "Traffic"}
           => (e.institutionType = None /\ e.passengers = None)

\* The table returned holds an institutional event, a traffic event and an
\* event of another type.
C2_Witness ==
    /\ "sampling_fact_df" \in returned
    /\ \E e \in Range(sampling_fact_df) : e.institutionType # None
    /\ \E e \in Range(sampling_fact_df) : e.passengers # None
    /\ \E e \in Range(sampling_fact_df) :
           e.institutionType = None /\ e.passengers = None

\* C3 (as stated): a passenger count that is set is between 5 and 9; 10 is
\* never produced.
C3_PassengersBelow10 ==
    \A e \in Range(sampling_facts) :
        e.passengers # None => (5 <= e.passengers[1] /\ e.passengers[1] <= 9)

\* C3 (amended): a passenger count that is set is an integer between 5 and
\* 10, both included.
C3_PassengersWithin5And10 ==
    \A e \in Range(sampling_facts) :
        e.passengers # None => (5 <= e.passengers[1] /\ e.passengers[1] <= 10)

\* An event with 10 passengers and an event with 5 passengers have been
\* produced.
C3_Witness ==
    /\ \E e \in Range(sampling_facts) : e.passengers = Some(10)
    /\ \E e \in Range(sampling_facts) : e.passengers = Some(5)

\* C5 (as stated): in the run performed by main the Area table has
\* 2 x (number of districts) = 18 rows, the Promoter table the 5 rows
\* P1000..P1004 and the SamplingFact table the 6 rows S1000..S1005.
C5_AreaTableHas18Rows ==
    /\ "area_df" \in returned =>
          /\ Len(area_df) = 2 * DistrictCount(lookup_data.regions_districts)
          /\ Len(area_df) = 18
    /\ "promoter_df" \in returned =>
          [k \in 1..Len(promoter_df) |-> promoter_df[k].promoterID]
              = <<"P1000", "P1001", "P1002", "P1003", "P1004">>
    /\ "sampling_fact_df" \in returned =>
          [k \in 1..Len(sampling_fact_df) |-> sampling_fact_df[k].samplingID]
              = <<"S1000", "S1001", "S1002", "S1003", "S1004", "S1005">>

\* C5 (amended): in the run performed by main the Area table has
\* 2 x (number of districts) rows, which is 20 (the built-in mapping has
\* 4 + 3 + 3 = 10 districts), the Promoter table the 5 rows P1000..P1004
\* and the SamplingFact table the 6 rows S1000..S1005.
C5_MainTableSizes ==
    /\ "area_df" \in returned =>
          /\ Len(area_df) = 2 * DistrictCount(lookup_data.regions_districts)
          /\ Len(area_df) = 20
    /\ "promoter_df" \in returned =>
          [k \in 1..Len(promoter_df) |-> promoter_df[k].promoterID]
              = <<"P1000", "P1001", "P1002", "P1003", "P1004">>
    /\ "sampling_fact_df" \in returned =>
          [k \in 1..Len(sampling_fact_df) |-> sampling_fact_df[k].samplingID]
              = <<"S1000", "S1001", "S1002", "S1003", "S1004", "S1005">>

\* main has run to its end and the three tables are there.
C5_Witness ==
    /\ pc = "done"
    /\ entry = "main"
    /\ {"area_df", "promoter_df", "sampling_fact_df"} \subseteq returned
    /\ Len(area_df) = 20
    /\ Len(promoter_df) = 5
    /\ Len(sampling_fact_df) = 6

\* The sum of a sequence of numbers.
RECURSIVE SumSeq(_)
SumSeq(sq) == IF sq = <<>> THEN 0 ELSE Head(sq) + SumSeq(Tail(sq))

\* The number of rows of a respondent table that refer to a sampling event.
CountFor(df, samplingID) ==
    Cardinality({k \in 1..Len(df) : df[k].samplingID = samplingID})

\* C6: in the table generate_respondents returns, every event given to it
\* with target >= 100 has between 100 and target respondents, and the number
\* of rows is the sum of the batch sizes drawn.
C6_BatchSizes ==
    "respondents_df" \in returned =>
        /\ \A e \in Range(sampling_fact_df) :
              e.target >= 100 =>
                  /\ CountFor(respondents_df, e.samplingID) >= 100
                  /\ CountFor(respondents_df, e.samplingID) <= e.target
        /\ Len(respondents_df) = SumSeq(actuals)
        /\ Len(actuals) = Len(sampling_fact_df)

\* A table has been returned in which one event with a target above 100 has
\* exactly 100 respondents and another exactly as many as its target.
C6_Witness ==
    /\ "respondents_df" \in returned
    /\ \E e \in Range(sampling_fact_df) :
          /\ e.target > 100
          /\ CountFor(respondents_df, e.samplingID) = 100
    /\ \E e \in Range(sampling_fact_df) :
          /\ e.target > 100
          /\ CountFor(respondents_df, e.samplingID) = e.target

\* C7: every sampling event's areaID, promoterID and samplingType are keys
\* of the Area, Promoter and Sampling-Type tables; every respondent's
\* samplingID is that of a sampling event, whose areaID and toothpasteBrand
\* the respondent carries.
C7_ReferentialIntegrity ==
    /\ \A e \in Range(sampling_facts) :
          /\ \E a \in Range(area_df) : a.areaID = e.areaID
          /\ \E q \in Range(promoter_df) : q.promoterID = e.promoterID
          /\ \E t \in Range(sampling_type_df) : t.key = e.samplingType
    /\ "respondents_df" \in returned =>
          \A k \in 1..Len(respondents_df) :
              \E e \in Range(sampling_fact_df) :
                  /\ e.samplingID = respondents_df[k].samplingID
                  /\ e.areaID = respondents_df[k].areaID
                  /\ e.toothpasteBrand = respondents_df[k].toothpasteBrand

\* The pipeline has run to its end, with events in different areas and of
\* different brands, and respondents for each.
C7_Witness ==
    /\ pc = "done"
    /\ Len(respondents_df) > 0
    /\ \E e1, e2 \in Range(sampling_fact_df) :
          /\ e1.areaID # e2.areaID
          /\ e1.toothpasteBrand # e2.toothpasteBrand
          /\ e1.promoterID # e2.promoterID

\* Whether the elements of a sequence are pairwise distinct.
Distinct(sq) == Cardinality(Range(sq)) = Len(sq)

\* The j-th district entry of a mapping, in iteration order.
RECURSIVE DistrictEntries(_)
DistrictEntries(rd) ==
    IF rd = <<>> THEN <<>>
    ELSE [k \in 1..Len(Head(rd).districts) |-> Head(rd).districts[k]]
         \o DistrictEntries(Tail(rd))

\* C8: primary keys are unique in every table, whatever the sizes and start
\* ids: area ids come two consecutive numbers per district entry, in
\* iteration order; promoter ids, sampling ids and sampling-type keys are
\* pairwise distinct; the respondent ids are R s, R s+1, ... in row order
\* (s the start id), the rows of each event forming one contiguous block.
C8_UniqueKeys ==
    /\ Distinct([k \in 1..Len(area_df) |-> area_df[k].areaID])
    /\ \A j \in 1..Len(DistrictEntries(lookup_data.regions_districts)) :
          "area_df" \in returned =>
              /\ area_df[2 * j - 1].areaID
                     = "A " \o ToString(params.area_start + 2 * j - 2)
              /\ area_df[2 * j].areaID
                     = "A " \o ToString(params.area_start + 2 * j - 1)
              /\ area_df[2 * j - 1].district
                     = DistrictEntries(lookup_data.regions_districts)[j]
              /\ area_df[2 * j].district
                     = DistrictEntries(lookup_data.regions_districts)[j]
    /\ Distinct([k \in 1..Len(promoter_df) |-> promoter_df[k].promoterID])
    /\ Distinct([k \in 1..Len(sampling_facts) |-> sampling_facts[k].samplingID])
    /\ Distinct(Index(sampling_type_df))
    /\ Distinct([k \in 1..Len(respondents) |-> respondents[k].respondentID])
    /\ \A k \in 1..Len(respondents) :
          respondents[k].respondentID
              = "R" \o ToString(params.respondent_start + k - 1)
    /\ \A j \in 1..Len(actuals) :
          \A k \in (SumSeq(SubSeq(actuals, 1, j - 1)) + 1)
                       ..SumSeq(SubSeq(actuals, 1, j)) :
              respondents[k].samplingID = sampling_fact_df[j].samplingID
    /\ "respondents_df" \in returned => respondents_df = respondents

\* Respondents of two events have been returned, for a start id other than
\* the default, and the area, promoter and sampling tables hold several rows.
C8_Witness ==
    /\ "respondents_df" \in returned
    /\ Len(actuals) >= 2
    /\ params.respondent_start # RespondentStartId
    /\ Len(area_df) >= 2
    /\ Len(promoter_df) >= 2
    /\ Len(sampling_facts) >= 2

\* C9: every sampling event ends exactly 30 days after it starts, and every
\* respondent of the event has a submission day between the event's start
\* day and its end day, both included.
C9_DatesWithinEvent ==
    /\ \A e \in Range(sampling_facts) : e.endDate = e.startDate + 30
    /\ "respondents_df" \in returned =>
          \A k \in 1..Len(respondents_df) :
              \E e \in Range(sampling_fact_df) :
                  /\ e.samplingID = respondents_df[k].samplingID
                  /\ e.startDate <= respondents_df[k].dateOfSubmistion
                  /\ respondents_df[k].dateOfSubmistion <= e.endDate

\* The submission days of the respondents of one event.
SubmissionDays(df, samplingID) ==
    {df[k].dateOfSubmistion :
        k \in {i \in 1..Len(df) : df[i].samplingID = samplingID}}

\* For some event every one of the 31 days from its start day to its end
\* day, the two ends among them, is the submission day of a respondent.
C9_Witness ==
    /\ "respondents_df" \in returned
    /\ \E e \in Range(sampling_fact_df) :
          /\ SubmissionDays(respondents_df, e.samplingID)
                 = e.startDate..e.endDate
          /\ Cardinality(e.startDate..e.endDate) = 31

\* C4: two runs of the pipeline with the same seed produce identical
\* tables: every value, the generated names, contacts and start dates
\* included, is a function of the seed alone.
C4_SameSeedSameTables ==
    (run_no = 2 /\ pc = "done") => Tables = first_run[1]

\* The generator calls of main, in the order main makes them.
MainCalls ==
    <<"generate_area_data", "generate_promoter_data",
      "generate_sampling_type_df", "generate_sampling_facts",
      "generate_respondents">>

\* What holds in every state of a run, as far as failures go.
C10_State ==
    /\ error # "" =>
          /\ pc = "failed"
          /\ exported = <<>>
          /\ "respondents_df" \notin returned
    /\ pc = "failed" => error # ""
    /\ Distinct(calls)
    /\ exported # <<>> =>
          /\ error = ""
          /\ calls = MainCalls
          /\ returned = {"area_df", "promoter_df", "sampling_type_df",
                         "sampling_fact_df", "respondents_df"}

\* C10: a failure of a generation step ends the run there: nothing happens
\* after it, no respondent table is returned, no generator is called twice
\* and export_to_excel is not invoked; the export happens only after the
\* five generators have returned, called in the order Area, Promoter,
\* SamplingType, SamplingEvent, Respondent.
C10_FailureIsFatal ==
    /\ []C10_State
    /\ [][error # "" => UNCHANGED vars]_vars

\* The sequence of calls of main has failed in generate_respondents, after
\* the four other tables were returned.
C10_Witness ==
    /\ pc = "failed"
    /\ error = "generate_respondents"
    /\ entry = "pipeline"
    /\ returned = {"area_df", "promoter_df", "sampling_type_df",
                   "sampling_fact_df"}
    /\ exported = <<>>

=============================================================================
